---- MODULE Spec2Model ----
(***************************************************************************)
(* Model of the nonogram hints library (src/src/nonogram.c) and of the     *)
(* backtracking solver program (src/src/nonogram-solve.c).                 *)
(*                                                                         *)
(* C arrays are functions over 0..n-1, so that every index of the model is *)
(* the index the C code uses.  Board cells are -1 (unknown), 0 (empty) and *)
(* 1 (filled).  A text is a sequence of one-character strings.             *)
(* Allocations of a positive size succeed, except in SpecAlloc, where one   *)
(* allocation of _nonogram_hints_new may fail; files can be opened and     *)
(* read.                                                                   *)
(***************************************************************************)
EXTENDS Integers, Sequences, FiniteSets, TLC

VARIABLES
    input,      \* what the run is given: a JSON file's text, or a 0/1 board
    pc,         \* position of the program
    hints,      \* the NonoGramHints object, or NULL
    created,    \* what the last nonogram_hints_create call did
    board,      \* the solver's board (int **board of solve_nonogram)
    stack,      \* the frames of solve_recursive, outermost first
    ret,        \* the value returned by the solve_recursive call that ended last
    invoked,    \* solve_nonogram has been called
    out,        \* what was written to stderr and stdout, in order
    string,     \* the static buffer of nonogram_hints_to_string
    call        \* the last library call and its result

vars == <<input, pc, hints, created, board, stack, ret, invoked, out, string, call>>

-----------------------------------------------------------------------------
(* Bounds of the model *)

\* a grid has at most MaxCells cells (rows_count * cols_count <= MaxCells)
MaxCells == 4

\* a hint description has at most MaxOver lines whose runs do not fit the line
MaxOver == 1

-----------------------------------------------------------------------------
(* Values *)

NULL == [isnull |-> TRUE]

NoCall == [op |-> "none"]

NoCreate == [called |-> FALSE]

\* an int[n] array with every element v
ArrayOf(n, v) == [i \in 0 .. n - 1 |-> v]

\* the sequence <<a[0], ..., a[n-1]>> of an array
RECURSIVE ArrayToSeq(_, _)
ArrayToSeq(a, n) ==
    IF n = 0 THEN << >> ELSE Append(ArrayToSeq(a, n - 1), a[n - 1])

\* the array of a sequence
SeqToArray(s) == [i \in 0 .. Len(s) - 1 |-> s[i + 1]]

RECURSIVE SumSeq(_)
SumSeq(s) == IF s = << >> THEN 0 ELSE Head(s) + SumSeq(Tail(s))

\* column col of a board with rows rows, as an array
Column(b, rows, col) == [r \in 0 .. rows - 1 |-> b[r][col]]

-----------------------------------------------------------------------------
(* The hints object: src/src/nonogram.inc and src/src/nonogram.c *)

\* struct _NonoGramHints
NonoGramHints(rc, cc, rows, cols) ==
    [rows_count |-> rc, cols_count |-> cc, rows |-> rows, cols |-> cols]

\* _nonogram_hints_new: NULL when a count is zero, before anything is
\* allocated; else the object with calloc'ed (zero-filled) hint arrays.
\* allocs counts the malloc and calloc calls made.
_nonogram_hints_new_late(rows_count, cols_count) ==
    IF rows_count = 0 \/ cols_count = 0
    THEN [hints |-> NULL, allocs |-> 1]
    ELSE [hints |-> NonoGramHints(0, 0,
                        [row \in 0 .. rows_count - 1 |-> ArrayOf(cols_count, 0)],
                        [col \in 0 .. cols_count - 1 |-> ArrayOf(rows_count, 0)]),
          allocs |-> 3 + rows_count + cols_count]

_nonogram_hints_new(rows_count, cols_count) ==
    IF rows_count = 0 \/ cols_count = 0
    THEN [hints |-> NULL, allocs |-> 0]
    ELSE [hints |-> NonoGramHints(0, 0,
                        [row \in 0 .. rows_count - 1 |-> ArrayOf(cols_count, 0)],
                        [col \in 0 .. cols_count - 1 |-> ArrayOf(rows_count, 0)]),
          allocs |-> 3 + rows_count + cols_count]

\* the blocks of memory of a hints object
Block(name, i) == <<name, i>>

\* the blocks <<name, 0>>, ..., <<name, n - 1>>, in that order
Blocks(name, n) == [i \in 1 .. n |-> Block(name, i - 1)]

\* _nonogram_hints_new when the allocation call number fail (counted from 1
\* in the order the calls are made; 0: none) returns NULL: the pointer
\* returned, the blocks allocated and the blocks freed, each in order.  The
\* calls are: the object, the rows table, the cols table, one array per row,
\* one array per column.
_nonogram_hints_new_leaky(rows_count, cols_count, fail) ==
    LET head == <<Block("hints", 0), Block("rows", 0), Block("cols", 0)>>
        tail == <<Block("rows", 0), Block("hints", 0)>>
    IN
    IF rows_count = 0 \/ cols_count = 0
    THEN [hints |-> NULL, allocs |-> << >>, frees |-> << >>]
    ELSE IF fail = 1
    THEN [hints |-> NULL, allocs |-> << >>, frees |-> << >>]
    ELSE IF fail = 2
    THEN [hints |-> NULL, allocs |-> <<Block("hints", 0)>>, frees |-> <<Block("hints", 0)>>]
    ELSE IF fail = 3
    THEN [hints |-> NULL,
          allocs |-> <<Block("hints", 0), Block("rows", 0)>>,
          frees |-> <<Block("rows", 0), Block("hints", 0)>>]
    ELSE IF fail \in 4 .. 3 + rows_count
    THEN [hints |-> NULL,
          allocs |-> head \o Blocks("row", fail - 4),
          frees |-> Blocks("row", fail - 4) \o tail]
    ELSE IF fail \in 4 + rows_count .. 3 + rows_count + cols_count
    THEN [hints |-> NULL,
          allocs |-> head \o Blocks("row", rows_count)
                         \o Blocks("col", fail - 4 - rows_count),
          frees |-> Blocks("col", fail - 4 - rows_count)
                        \o Blocks("row", rows_count) \o tail]
    ELSE [hints |-> NonoGramHints(0, 0,
                        [row \in 0 .. rows_count - 1 |-> ArrayOf(cols_count, 0)],
                        [col \in 0 .. cols_count - 1 |-> ArrayOf(rows_count, 0)]),
          allocs |-> head \o Blocks("row", rows_count) \o Blocks("col", cols_count),
          frees |-> << >>]

_nonogram_hints_new_failing(rows_count, cols_count, fail) ==
    LET head == <<Block("hints", 0), Block("rows", 0), Block("cols", 0)>>
        tail == <<Block("rows", 0), Block("cols", 0), Block("hints", 0)>>
    IN
    IF rows_count = 0 \/ cols_count = 0
    THEN [hints |-> NULL, allocs |-> << >>, frees |-> << >>]
    ELSE IF fail = 1
    THEN [hints |-> NULL, allocs |-> << >>, frees |-> << >>]
    ELSE IF fail = 2
    THEN [hints |-> NULL, allocs |-> <<Block("hints", 0)>>, frees |-> <<Block("hints", 0)>>]
    ELSE IF fail = 3
    THEN [hints |-> NULL,
          allocs |-> <<Block("hints", 0), Block("rows", 0)>>,
          frees |-> <<Block("rows", 0), Block("hints", 0)>>]
    ELSE IF fail \in 4 .. 3 + rows_count
    THEN [hints |-> NULL,
          allocs |-> head \o Blocks("row", fail - 4),
          frees |-> Blocks("row", fail - 4) \o tail]
    ELSE IF fail \in 4 + rows_count .. 3 + rows_count + cols_count
    THEN [hints |-> NULL,
          allocs |-> head \o Blocks("row", rows_count)
                         \o Blocks("col", fail - 4 - rows_count),
          frees |-> Blocks("col", fail - 4 - rows_count)
                        \o Blocks("row", rows_count) \o tail]
    ELSE [hints |-> NonoGramHints(0, 0,
                        [row \in 0 .. rows_count - 1 |-> ArrayOf(cols_count, 0)],
                        [col \in 0 .. cols_count - 1 |-> ArrayOf(rows_count, 0)]),
          allocs |-> head \o Blocks("row", rows_count) \o Blocks("col", cols_count),
          frees |-> << >>]

\* The scan of one line of _nonogram_hints_fill: the inner loop over the n
\* cells of line from cell k on, with the running count and the next free
\* index of the hint array arr; the store after the loop writes the last
\* count at index.
RECURSIVE _fill_line_open(_, _, _, _, _, _)
_fill_line_open(arr, line, n, k, count, index) ==
    IF k = n THEN arr
    ELSE IF line[k] = 1 THEN _fill_line_open(arr, line, n, k + 1, count + 1, index)
    ELSE IF count > 0
         THEN _fill_line_open([arr EXCEPT ![index] = count], line, n, k + 1, 0, index + 1)
         ELSE _fill_line_open(arr, line, n, k + 1, count, index)

RECURSIVE _fill_line(_, _, _, _, _, _)
_fill_line(arr, line, n, k, count, index) ==
    IF k = n THEN [arr EXCEPT ![index] = count]
    ELSE IF line[k] = 1 THEN _fill_line(arr, line, n, k + 1, count + 1, index)
    ELSE IF count > 0
         THEN _fill_line([arr EXCEPT ![index] = count], line, n, k + 1, 0, index + 1)
         ELSE _fill_line(arr, line, n, k + 1, count, index)

\* _nonogram_hints_fill
_nonogram_hints_fill(h, b, rows_count, cols_count) ==
    NonoGramHints(rows_count, cols_count,
        [row \in 0 .. rows_count - 1 |->
            _fill_line(h.rows[row], b[row], cols_count, 0, 0, 0)],
        [col \in 0 .. cols_count - 1 |->
            _fill_line(h.cols[col], Column(b, rows_count, col), rows_count, 0, 0, 0)])

\* nonogram_hints_create: the object, the allocations made and the number of
\* board cells read
nonogram_hints_create(b, rows_count, cols_count) ==
    LET new == _nonogram_hints_new(rows_count, cols_count) IN
    IF new.hints # NULL
    THEN [hints |-> _nonogram_hints_fill(new.hints, b, rows_count, cols_count),
          allocs |-> new.allocs,
          reads |-> 2 * rows_count * cols_count]
    ELSE [hints |-> NULL, allocs |-> new.allocs, reads |-> 0]

\* the values a read outside an array may give, when it gives one
Garbage == -1 .. MaxCells

\* nonogram_hints_get_row_value: the outcomes the call can have.  The two
\* asserts test the upper ends only; a read outside the arrays is undefined:
\* it faults or gives any value.
nonogram_hints_get_row_value(h, row, index) ==
    IF ~(row < h.rows_count) THEN {[kind |-> "assert"]}
    ELSE IF ~(index < h.cols_count) THEN {[kind |-> "assert"]}
    ELSE IF row \in DOMAIN h.rows /\ index \in DOMAIN h.rows[row]
         THEN {[kind |-> "value", value |-> h.rows[row][index]]}
         ELSE {[kind |-> "fault"]} \cup {[kind |-> "wild", value |-> v] : v \in Garbage}

\* nonogram_hints_get_col_value
nonogram_hints_get_col_value(h, col, index) ==
    IF ~(col < h.cols_count) THEN {[kind |-> "assert"]}
    ELSE IF ~(index < h.rows_count) THEN {[kind |-> "assert"]}
    ELSE IF col \in DOMAIN h.cols /\ index \in DOMAIN h.cols[col]
         THEN {[kind |-> "value", value |-> h.cols[col][index]]}
         ELSE {[kind |-> "fault"]} \cup {[kind |-> "wild", value |-> v] : v \in Garbage}

-----------------------------------------------------------------------------
(* The two checks of the solver: src/src/nonogram-solve.c *)

\* One scan of is_valid_move: the loop over the n cells of line from cell k
\* on, with the running count and the index of the next hint of arr, then
\* the test after the loop.  Every cell that is not 1 (0 or -1) ends a run.
RECURSIVE _line_is_valid_ge(_, _, _, _, _, _)
_line_is_valid_ge(line, n, arr, k, count, index) ==
    IF k = n THEN ~(count > 0 /\ count >= arr[index])
    ELSE IF line[k] = 1 THEN _line_is_valid_ge(line, n, arr, k + 1, count + 1, index)
    ELSE IF count > 0
         THEN IF count >= arr[index] THEN FALSE
              ELSE _line_is_valid_ge(line, n, arr, k + 1, 0, index + 1)
         ELSE _line_is_valid_ge(line, n, arr, k + 1, count, index)

RECURSIVE _line_is_valid(_, _, _, _, _, _)
_line_is_valid(line, n, arr, k, count, index) ==
    IF k = n THEN ~(count > 0 /\ count # arr[index])
    ELSE IF line[k] = 1 THEN _line_is_valid(line, n, arr, k + 1, count + 1, index)
    ELSE IF count > 0
         THEN IF count # arr[index] THEN FALSE
              ELSE _line_is_valid(line, n, arr, k + 1, 0, index + 1)
         ELSE _line_is_valid(line, n, arr, k + 1, count, index)

\* is_valid_move: the row scan, then the column scan
is_valid_move_row(b, row, col, h) ==
    _line_is_valid(b[row], h.cols_count, h.rows[row], 0, 0, 0)

is_valid_move(b, row, col, h) ==
    /\ _line_is_valid(b[row], h.cols_count, h.rows[row], 0, 0, 0)
    /\ _line_is_valid(Column(b, h.rows_count, col), h.rows_count, h.cols[col], 0, 0, 0)

\* the while loop of is_solved: the first index from j on, below n, whose
\* cell is not 1
RECURSIVE _skip_filled(_, _, _)
_skip_filled(line, n, j) ==
    IF j < n /\ line[j] = 1 THEN _skip_filled(line, n, j + 1) ELSE j

\* One line of is_solved: the for loop over the hn hints of arr from hint i
\* on, with j the position reached in the line of n cells.  After each hint
\* at most one cell, and only a cell equal to 0, is stepped over.
RECURSIVE _line_is_solved(_, _, _, _, _, _)
_line_is_solved(line, n, arr, hn, i, j) ==
    IF i >= hn THEN TRUE
    ELSE LET j2 == _skip_filled(line, n, j)
             count == j2 - j
         IN IF count # arr[i] THEN FALSE
            ELSE _line_is_solved(line, n, arr, hn, i + 1,
                                 IF j2 < n /\ line[j2] = 0 THEN j2 + 1 ELSE j2)

\* is_solved: every row, then every column
is_solved_rows(b, rows, cols, h) ==
    \A row \in 0 .. rows - 1 :
        _line_is_solved(b[row], cols, h.rows[row], h.cols_count, 0, 0)

is_solved(b, rows, cols, h) ==
    /\ \A row \in 0 .. rows - 1 :
          _line_is_solved(b[row], cols, h.rows[row], h.cols_count, 0, 0)
    /\ \A col \in 0 .. cols - 1 :
          _line_is_solved(Column(b, rows, col), rows, h.cols[col], h.rows_count, 0, 0)

-----------------------------------------------------------------------------
(* The array accesses of the scans.  An access is the array ("rows", "cols" *)
(* or "board"), the line (the row of a row hint array or of the board, the  *)
(* column of a column hint array) and the index inside the line.  The scan  *)
(* of one line gives the places <<"hint", index>> and <<"cell", k>> it      *)
(* touches; a scan is followed up to its first access outside the hint      *)
(* array, whose value is not defined.                                       *)

Access(array, line, index) == [array |-> array, line |-> line, index |-> index]

\* the accesses of the scan of row row of the board
RowAccesses(places, row) ==
    {Access(IF p[1] = "hint" THEN "rows" ELSE "board", row, p[2]) : p \in places}

\* the accesses of the scan of column col of the board
ColAccesses(places, col) ==
    {IF p[1] = "hint" THEN Access("cols", col, p[2]) ELSE Access("board", p[2], col) :
        p \in places}

\* the stores and the cell reads of one line of _nonogram_hints_fill
RECURSIVE _fill_line_places_every(_, _, _, _, _)
_fill_line_places_every(line, n, k, count, index) ==
    IF k = n THEN {<<"hint", index>>}
    ELSE {<<"cell", k>>} \cup
         (IF line[k] = 1 THEN _fill_line_places_every(line, n, k + 1, count + 1, index)
          ELSE {<<"hint", index>>}
                   \cup _fill_line_places_every(line, n, k + 1, 0, index + 1))

RECURSIVE _fill_line_places(_, _, _, _, _)
_fill_line_places(line, n, k, count, index) ==
    IF k = n THEN {<<"hint", index>>}
    ELSE {<<"cell", k>>} \cup
         (IF line[k] = 1 THEN _fill_line_places(line, n, k + 1, count + 1, index)
          ELSE IF count > 0
               THEN {<<"hint", index>>}
                        \cup _fill_line_places(line, n, k + 1, 0, index + 1)
               ELSE _fill_line_places(line, n, k + 1, count, index))

\* the accesses of _nonogram_hints_fill: every row, then every column
_nonogram_hints_fill_accesses(b, rows_count, cols_count) ==
    UNION ({RowAccesses(_fill_line_places(b[row], cols_count, 0, 0, 0), row) :
               row \in 0 .. rows_count - 1}
           \cup {ColAccesses(_fill_line_places(Column(b, rows_count, col),
                                               rows_count, 0, 0, 0), col) :
                    col \in 0 .. cols_count - 1})

\* the reads of one scan of is_valid_move
RECURSIVE _line_is_valid_places(_, _, _, _, _, _)
_line_is_valid_places(line, n, arr, k, count, index) ==
    IF k = n THEN (IF count > 0 THEN {<<"hint", index>>} ELSE {})
    ELSE {<<"cell", k>>} \cup
         (IF line[k] = 1 THEN _line_is_valid_places(line, n, arr, k + 1, count + 1, index)
          ELSE IF count > 0
               THEN {<<"hint", index>>} \cup
                    (IF index \notin DOMAIN arr \/ count # arr[index] THEN {}
                     ELSE _line_is_valid_places(line, n, arr, k + 1, 0, index + 1))
               ELSE _line_is_valid_places(line, n, arr, k + 1, count, index))

\* the reads of is_valid_move: the row scan and, when it passes, the column
\* scan
is_valid_move_accesses(b, row, col, h) ==
    RowAccesses(_line_is_valid_places(b[row], h.cols_count, h.rows[row], 0, 0, 0), row)
    \cup (IF _line_is_valid(b[row], h.cols_count, h.rows[row], 0, 0, 0)
          THEN ColAccesses(_line_is_valid_places(Column(b, h.rows_count, col),
                               h.rows_count, h.cols[col], 0, 0, 0), col)
          ELSE {})

\* the reads of one line of is_solved: the cells the while loop tests, the
\* hint, the cell tested after it
RECURSIVE _line_is_solved_places(_, _, _, _, _, _)
_line_is_solved_places(line, n, arr, hn, i, j) ==
    IF i >= hn THEN {}
    ELSE LET j2 == _skip_filled(line, n, j)
             count == j2 - j
         IN {<<"cell", k>> : k \in {m \in j .. j2 : m < n}} \cup {<<"hint", i>>} \cup
            (IF i \notin DOMAIN arr \/ count # arr[i] THEN {}
             ELSE _line_is_solved_places(line, n, arr, hn, i + 1,
                      IF j2 < n /\ line[j2] = 0 THEN j2 + 1 ELSE j2))

\* the reads of is_solved: the rows up to the first that fails and, when
\* none fails, the columns up to the first that fails
is_solved_accesses(b, rows, cols, h) ==
    LET rowOk(row) == _line_is_solved(b[row], cols, h.rows[row], h.cols_count, 0, 0)
        colOk(col) == _line_is_solved(Column(b, rows, col), rows, h.cols[col],
                                      h.rows_count, 0, 0)
    IN UNION ({RowAccesses(_line_is_solved_places(b[row], cols, h.rows[row],
                                                  h.cols_count, 0, 0), row) :
                  row \in {r \in 0 .. rows - 1 : \A q \in 0 .. r - 1 : rowOk(q)}}
              \cup {ColAccesses(_line_is_solved_places(Column(b, rows, col), rows,
                                     h.cols[col], h.rows_count, 0, 0), col) :
                       col \in {c \in 0 .. cols - 1 :
                                   /\ \A q \in 0 .. rows - 1 : rowOk(q)
                                   /\ \A q \in 0 .. c - 1 : colOk(q)}})

\* the base case of solve_recursive (row == rows)
_base_case_unchecked(b, rows, cols, h) == TRUE

_base_case(b, rows, cols, h) == is_solved(b, rows, cols, h)

\* print_solution: the lines written to stdout
print_solution(b, rows, cols) ==
    LET border == <<"+">> \o [i \in 1 .. cols |-> "-"] \o <<"+">> IN
    <<border>>
    \o [i \in 1 .. rows |->
          <<"|">> \o [j \in 1 .. cols |-> IF b[i - 1][j - 1] = 1 THEN "#" ELSE " "]
          \o <<"|">>]
    \o <<border>>

-----------------------------------------------------------------------------
(* Texts *)

Digits == <<"0", "1", "2", "3", "4", "5", "6", "7", "8", "9">>

IsDigit(c) == \E d \in 1 .. 10 : Digits[d] = c

DigitVal(c) == (CHOOSE d \in 1 .. 10 : Digits[d] = c) - 1

\* the terminating byte of a C string
NUL == "NUL"

\* one character
Q == "\""

\* snprintf(buffer, sizeof buffer, "%d", n): the decimal digits of n
RECURSIVE _snprintf_d(_)
_snprintf_d(n) ==
    IF n < 0 THEN <<"-">> \o _snprintf_d(0 - n)
    ELSE IF n < 10 THEN <<Digits[n + 1]>>
    ELSE _snprintf_d(n \div 10) \o <<Digits[(n % 10) + 1]>>

\* the C string held by a buffer: the bytes before the first NUL
RECURSIVE CString(_)
CString(buf) ==
    IF buf = << >> \/ Head(buf) = NUL THEN << >>
    ELSE <<Head(buf)>> \o CString(Tail(buf))

\* the texts of the keys
K_rows == <<Q, "r", "o", "w", "s", Q>>

K_cols == <<Q, "c", "o", "l", "s", Q>>

K_rows_count == <<Q, "r", "o", "w", "s", "_", "c", "o", "u", "n", "t", Q>>

K_cols_count == <<Q, "c", "o", "l", "s", "_", "c", "o", "u", "n", "t", Q>>

-----------------------------------------------------------------------------
(* nonogram_hints_to_string: src/src/nonogram.c *)

\* _add_string: realloc to length + strlen(add) + 1 bytes, which keeps the
\* first length bytes, then strncpy of add and its NUL at offset length.
\* st is [buf, length]; the result is the new buffer and the new length.
_add_string_residue(st, add) ==
    [buf |-> SubSeq(st.buf, 1, st.length) \o add
                 \o (IF Len(st.buf) > st.length + Len(add) + 1
                     THEN SubSeq(st.buf, st.length + Len(add) + 1, Len(st.buf))
                     ELSE <<NUL>>),
     length |-> st.length + Len(add)]

_add_string(st, add) ==
    [buf |-> SubSeq(st.buf, 1, st.length) \o add \o <<NUL>>,
     length |-> st.length + Len(add)]

\* The inner loop of nonogram_hints_to_string over the n slots of one hint
\* array from slot index on: stops at the first zero slot, writes a comma
\* before every value but the first.
RECURSIVE _add_hint_values_all(_, _, _, _)
_add_hint_values_all(st, arr, n, index) ==
    IF index >= n THEN st
    ELSE _add_hint_values_all(
             _add_string(_add_string(st, IF index > 0 THEN <<",">> ELSE << >>),
                         _snprintf_d(arr[index])),
             arr, n, index + 1)

RECURSIVE _add_hint_values(_, _, _, _)
_add_hint_values(st, arr, n, index) ==
    IF index >= n THEN st
    ELSE IF arr[index] = 0 THEN st
    ELSE _add_hint_values(
             _add_string(_add_string(st, IF index > 0 THEN <<",">> ELSE << >>),
                         _snprintf_d(arr[index])),
             arr, n, index + 1)

\* The outer loop over the count hint arrays of arrs (rows or cols) from
\* array k on: a comma before every list but the first, then "[", the
\* values, "]".
RECURSIVE _add_hint_lists(_, _, _, _, _)
_add_hint_lists(st, arrs, count, n, k) ==
    IF k >= count THEN st
    ELSE _add_hint_lists(
             _add_string(
                 _add_hint_values(
                     _add_string(_add_string(st, IF k > 0 THEN <<",">> ELSE << >>),
                                 <<"[">>),
                     arrs[k], n, 0),
                 <<"]">>),
             arrs, count, n, k + 1)

\* nonogram_hints_to_string(hints): buf is the static buffer on entry; the
\* result is the static buffer on return and the pointer returned.  With
\* hints NULL the buffer is freed.  length starts at 0 on every call.
nonogram_hints_to_string(buf, h) ==
    IF h = NULL THEN [buf |-> << >>, result |-> NULL]
    ELSE LET s1 == _add_string([buf |-> buf, length |-> 0], <<"{">>)
             s2 == _add_string(s1, K_rows \o <<":", "[">>)
             s3 == _add_hint_lists(s2, h.rows, h.rows_count, h.cols_count, 0)
             s4 == _add_string(s3, <<"]">>)
             s5 == _add_string(s4, <<",">> \o K_cols \o <<":", "[">>)
             s6 == _add_hint_lists(s5, h.cols, h.cols_count, h.rows_count, 0)
             s7 == _add_string(s6, <<"]">>)
             s8 == _add_string(s7, <<"}">>)
         IN [buf |-> s8.buf, result |-> [isnull |-> FALSE, text |-> CString(s8.buf)]]

-----------------------------------------------------------------------------
(* The JSON library used by read_json_file.  A parsed item is a record with *)
(* a type t: "num" with valueint, "arr" with its child items, "obj" with    *)
(* its child items and their keys, "null" for the NULL pointer.  The texts  *)
(* of the model hold no white space.                                        *)

JNull == [t |-> "null"]

JFail == [ok |-> FALSE]

\* the digits of a number from position p on: the value and the position
\* after them
RECURSIVE _parse_digits(_, _, _)
_parse_digits(s, p, acc) ==
    IF p <= Len(s) /\ IsDigit(s[p])
    THEN _parse_digits(s, p + 1, 10 * acc + DigitVal(s[p]))
    ELSE [valueint |-> acc, p |-> p]

_parse_number(s, p) ==
    LET neg == s[p] = "-"
        q == IF neg THEN p + 1 ELSE p
    IN IF q > Len(s) \/ ~IsDigit(s[q]) THEN JFail
       ELSE LET d == _parse_digits(s, q, 0) IN
            [ok |-> TRUE,
             item |-> [t |-> "num", valueint |-> IF neg THEN 0 - d.valueint ELSE d.valueint],
             p |-> d.p]

\* the position of the closing quote of the string that opens at p - 1
RECURSIVE _string_end(_, _)
_string_end(s, p) ==
    IF p > Len(s) THEN 0 ELSE IF s[p] = Q THEN p ELSE _string_end(s, p + 1)

RECURSIVE _parse_value(_, _)
RECURSIVE _parse_array(_, _, _)
RECURSIVE _parse_object(_, _, _, _)

_parse_value(s, p) ==
    IF p > Len(s) THEN JFail
    ELSE IF s[p] = "[" THEN
        IF p + 1 <= Len(s) /\ s[p + 1] = "]"
        THEN [ok |-> TRUE, item |-> [t |-> "arr", child |-> << >>], p |-> p + 2]
        ELSE _parse_array(s, p + 1, << >>)
    ELSE IF s[p] = "{" THEN
        IF p + 1 <= Len(s) /\ s[p + 1] = "}"
        THEN [ok |-> TRUE, item |-> [t |-> "obj", child |-> << >>, keys |-> << >>], p |-> p + 2]
        ELSE _parse_object(s, p + 1, << >>, << >>)
    ELSE IF IsDigit(s[p]) \/ s[p] = "-" THEN _parse_number(s, p)
    ELSE JFail

\* the items of an array from position p on, acc the items parsed so far
_parse_array(s, p, acc) ==
    LET v == _parse_value(s, p) IN
    IF ~v.ok THEN JFail
    ELSE IF v.p > Len(s) THEN JFail
    ELSE IF s[v.p] = "," THEN _parse_array(s, v.p + 1, Append(acc, v.item))
    ELSE IF s[v.p] = "]"
         THEN [ok |-> TRUE, item |-> [t |-> "arr", child |-> Append(acc, v.item)], p |-> v.p + 1]
    ELSE JFail

\* the members of an object from position p on
_parse_object(s, p, keys, acc) ==
    IF p > Len(s) \/ s[p] # Q THEN JFail
    ELSE LET e == _string_end(s, p + 1) IN
         IF e = 0 \/ e + 1 > Len(s) \/ s[e + 1] # ":" THEN JFail
         ELSE LET v == _parse_value(s, e + 2) IN
              IF ~v.ok THEN JFail
              ELSE IF v.p > Len(s) THEN JFail
              ELSE IF s[v.p] = ","
                   THEN _parse_object(s, v.p + 1, Append(keys, SubSeq(s, p, e)),
                                      Append(acc, v.item))
              ELSE IF s[v.p] = "}"
                   THEN [ok |-> TRUE,
                         item |-> [t |-> "obj", child |-> Append(acc, v.item),
                                   keys |-> Append(keys, SubSeq(s, p, e))],
                         p |-> v.p + 1]
              ELSE JFail

\* cJSON_Parse: the item of the text, or NULL
cJSON_Parse(content) ==
    LET v == _parse_value(content, 1) IN IF v.ok THEN v.item ELSE JNull

\* cJSON_GetObjectItemCaseSensitive: the first member with that key, or NULL.
\* key is given as it stands in the text, quotes included.
cJSON_GetObjectItemCaseSensitive(object, key) ==
    IF object.t # "obj" THEN JNull
    ELSE IF \E i \in 1 .. Len(object.keys) : object.keys[i] = key
         THEN object.child[CHOOSE i \in 1 .. Len(object.keys) :
                              /\ object.keys[i] = key
                              /\ \A j \in 1 .. i - 1 : object.keys[j] # key]
         ELSE JNull

cJSON_IsNumber(item) == item.t = "num"

cJSON_IsArray(item) == item.t = "arr"

\* the items cJSON_ArrayForEach visits
cJSON_Children(item) == IF item.t \in {"arr", "obj"} THEN item.child ELSE << >>

-----------------------------------------------------------------------------
(* Reading the puzzle: src/src/nonogram-solve.c *)

\* initialize_board: the zeroed board, or NULL.  An allocation of zero bytes
\* may return NULL or not (zeroAllocNull says which); one of a negative count
\* of elements asks for more than the address space and returns NULL.
initialize_board(rows, cols, zeroAllocNull) ==
    IF rows < 0 \/ (rows = 0 /\ zeroAllocNull) THEN NULL
    ELSE IF rows > 0 /\ (cols < 0 \/ (cols = 0 /\ zeroAllocNull)) THEN NULL
    ELSE [isnull |-> FALSE, cells |-> [r \in 0 .. rows - 1 |-> ArrayOf(cols, 0)]]

\* The two nested cJSON_ArrayForEach loops of read_json_file that store the
\* numbers of the lists items into the hint arrays st.arrs, from list i and
\* element k on (both counted from 1): element k of list i goes to
\* arrs[i-1][k-1].  err: an element is not a number (the loops stop there);
\* ub: a store fell outside the arrays.
RECURSIVE _store_hints(_, _, _, _)
_store_hints(st, items, i, k) ==
    IF i > Len(items) THEN st
    ELSE LET kids == cJSON_Children(items[i]) IN
         IF k > Len(kids) THEN _store_hints(st, items, i + 1, 1)
         ELSE IF ~cJSON_IsNumber(kids[k]) THEN [st EXCEPT !.err = TRUE]
         ELSE IF (i - 1) \in DOMAIN st.arrs /\ (k - 1) \in DOMAIN st.arrs[i - 1]
              THEN _store_hints([st EXCEPT !.arrs[i - 1][k - 1] = kids[k].valueint],
                                items, i, k + 1)
              ELSE _store_hints([st EXCEPT !.ub = TRUE], items, i, k + 1)

ReadFailed(msg, cr) ==
    [hints |-> NULL, created |-> cr, err |-> <<msg>>, ub |-> FALSE]

\* read_json_file, from the parse of the file's content on (content is the
\* text of the file, which could be opened and read)
read_json_file(content, zeroAllocNull) ==
    LET json == cJSON_Parse(content) IN
    IF json.t = "null" THEN ReadFailed("Error parsing JSON", NoCreate)
    ELSE
    LET rows_count_json == cJSON_GetObjectItemCaseSensitive(json, K_rows_count)
        cols_count_json == cJSON_GetObjectItemCaseSensitive(json, K_cols_count)
    IN
    IF ~cJSON_IsNumber(rows_count_json) \/ ~cJSON_IsNumber(cols_count_json)
    THEN ReadFailed("Error: rows_count or cols_count is not a number", NoCreate)
    ELSE
    LET rows_count == rows_count_json.valueint
        cols_count == cols_count_json.valueint
        b == initialize_board(rows_count, cols_count, zeroAllocNull)
    IN
    IF b = NULL THEN ReadFailed("Error creating board", NoCreate)
    ELSE
    LET c == nonogram_hints_create(b.cells, rows_count, cols_count)
        cr == [called |-> TRUE, rows_count |-> rows_count, cols_count |-> cols_count,
               allocs |-> c.allocs, reads |-> c.reads, ok |-> c.hints # NULL]
    IN
    IF c.hints = NULL THEN ReadFailed("Error creating NonogramHints object", cr)
    ELSE
    LET rows_json == cJSON_GetObjectItemCaseSensitive(json, K_rows) IN
    IF ~cJSON_IsArray(rows_json) THEN ReadFailed("Error: rows hint is not an array", cr)
    ELSE
    LET r == _store_hints([arrs |-> c.hints.rows, err |-> FALSE, ub |-> FALSE],
                          rows_json.child, 1, 1)
    IN
    IF r.err THEN [ReadFailed("Error: rows hint is not a number", cr) EXCEPT !.ub = r.ub]
    ELSE
    LET cols_json == cJSON_GetObjectItemCaseSensitive(json, K_cols) IN
    IF ~cJSON_IsArray(cols_json)
    THEN [ReadFailed("Error: cols hint is not an array", cr) EXCEPT !.ub = r.ub]
    ELSE
    LET k == _store_hints([arrs |-> c.hints.cols, err |-> FALSE, ub |-> r.ub],
                          cols_json.child, 1, 1)
    IN
    IF k.err THEN [ReadFailed("Error: cols hint is not a number", cr) EXCEPT !.ub = k.ub]
    ELSE [hints |-> NonoGramHints(rows_count, cols_count, r.arrs, k.arrs),
          created |-> cr, err |-> << >>, ub |-> k.ub]

-----------------------------------------------------------------------------
(* The inputs of the model *)

\* the dimensions of the grids, degenerate ones (a count of zero) included
Dims == {d \in (0 .. MaxCells) \X (0 .. MaxCells) : d[1] * d[2] <= MaxCells}

GridDims == {d \in Dims : d[1] > 0 /\ d[2] > 0}

\* the room a run list needs in a line: its runs and one cell between two
Room(runs) == IF runs = << >> THEN 0 ELSE SumSeq(runs) + Len(runs) - 1

\* the lists of positive runs that need at most m cells of room
RECURSIVE RunLists(_)
RunLists(m) ==
    IF m <= 0 THEN {<< >>}
    ELSE {<< >>} \cup {<<x>> : x \in 1 .. m}
         \cup UNION {{<<x>> \o q : q \in RunLists(m - x - 1) \ {<< >>}} : x \in 1 .. m}

\* The run lists a file gives for a line of n cells: positive runs, no more
\* of them than the hint array of the line has slots, fitting the line or
\* exceeding it by one cell.
HintLists(n) == {q \in RunLists(n + 1) : Len(q) <= n}

\* the tuples of k elements of S
Tuples(S, k) == [1 .. k -> S]

\* the lines of a hint description whose runs need more room than the line has
OverLines(in) ==
    {<<"row", i>> : i \in {k \in 1 .. in.rows_count : Room(in.rows[k]) > in.cols_count}}
    \cup {<<"col", i>> : i \in {k \in 1 .. in.cols_count : Room(in.cols[k]) > in.rows_count}}

\* the hint descriptions a JSON file holds: as many lists as lines
JsonInputs ==
    {in \in UNION {
        {[kind |-> "json", rows_count |-> d[1], cols_count |-> d[2],
          rows |-> rs, cols |-> cs] :
            rs \in Tuples(HintLists(d[2]), d[1]), cs \in Tuples(HintLists(d[1]), d[2])} :
        d \in Dims} : Cardinality(OverLines(in)) <= MaxOver}

\* the 0/1 boards of dimensions d
Boards01(d) == [0 .. d[1] - 1 -> [0 .. d[2] - 1 -> {0, 1}]]

\* the boards of dimensions d with cells unknown, empty or filled
Boards3(d) == [0 .. d[1] - 1 -> [0 .. d[2] - 1 -> {-1, 0, 1}]]

BoardInputs(kind, dims) ==
    UNION {
        {[kind |-> kind, rows_count |-> d[1], cols_count |-> d[2], cells |-> b] :
            b \in Boards01(d)} :
        d \in dims}

\* the text of a list of numbers: [1,2]
RECURSIVE NumbersText(_)
NumbersText(q) ==
    IF q = << >> THEN << >>
    ELSE _snprintf_d(Head(q))
         \o (IF Tail(q) = << >> THEN << >> ELSE <<",">> \o NumbersText(Tail(q)))

\* the text of a list of lists of numbers: [[1],[2,1]]
RECURSIVE ListsBody(_)
ListsBody(ls) ==
    IF ls = << >> THEN << >>
    ELSE <<"[">> \o NumbersText(Head(ls)) \o <<"]">>
         \o (IF Tail(ls) = << >> THEN << >> ELSE <<",">> \o ListsBody(Tail(ls)))

\* the content of the JSON file of a hint description
JsonFileText(in) ==
    <<"{">> \o K_rows_count \o <<":">> \o _snprintf_d(in.rows_count)
    \o <<",">> \o K_cols_count \o <<":">> \o _snprintf_d(in.cols_count)
    \o <<",">> \o K_rows \o <<":", "[">> \o ListsBody(in.rows) \o <<"]">>
    \o <<",">> \o K_cols \o <<":", "[">> \o ListsBody(in.cols) \o <<"]", "}">>

-----------------------------------------------------------------------------
(* The program: main, solve_nonogram and solve_recursive of                 *)
(* src/src/nonogram-solve.c.  A frame of solve_recursive is its cursor      *)
(* (row, col) and the line it stands at:                                    *)
(*   L191 entered, L206 the cell holds 1 and is_valid_move is next,         *)
(*   L207 in the call made with the cell at 1, L213 the store of 0 is next, *)
(*   L215 in the call made with the cell at 0, L221 the backtrack is next,  *)
(*   L201 in the call made for a cell that was 1 already.                   *)

Stderr(text) == [fd |-> "stderr", text |-> text]

Stdout(grid) == [fd |-> "stdout", grid |-> grid]

Frame(row, col, at) == [row |-> row, col |-> col, at |-> at]

Top == stack[Len(stack)]

Pop == SubSeq(stack, 1, Len(stack) - 1)

\* the frame of the call solve_recursive(board, next_row, next_col, ...)
\* made from the frame f
NextFrame_down(f, cols) ==
    Frame(f.row + 1, f.col, "L191")

NextFrame(f, cols) ==
    Frame(IF f.col = cols - 1 THEN f.row + 1 ELSE f.row, (f.col + 1) % cols, "L191")

\* the stack after the top frame moved to line at and called the next cell
CallNext(at) ==
    Append(Append(Pop, [Top EXCEPT !.at = at]), NextFrame(Top, hints.cols_count))

Bool(b) == IF b THEN "true" ELSE "false"

InitCommon ==
    /\ pc = "main"
    /\ hints = NULL
    /\ created = NoCreate
    /\ board = << >>
    /\ stack = << >>
    /\ ret = "none"
    /\ invoked = FALSE
    /\ out = << >>
    /\ string = << >>
    /\ call = NoCall

\* main up to the return of read_json_file
ReadJsonFile ==
    /\ pc = "main"
    /\ input.kind = "json"
    /\ \E zeroAllocNull \in BOOLEAN :
          LET r == read_json_file(JsonFileText(input), zeroAllocNull) IN
          /\ hints' = r.hints
          /\ created' = r.created
          /\ IF r.hints = NULL
             THEN /\ out' = out \o [i \in 1 .. Len(r.err) |-> Stderr(r.err[i])]
                               \o <<Stderr("Error reading Nonogram puzzle from file")>>
                  /\ pc' \in {"exit_failure"} \cup (IF r.ub THEN {"crashed"} ELSE {})
             ELSE /\ out' = out
                  /\ pc' \in {"solve"} \cup (IF r.ub THEN {"crashed"} ELSE {})
    /\ UNCHANGED <<input, board, stack, ret, invoked, string, call>>

\* the hints of a known board: nonogram_hints_create(B, rows_count, cols_count)
HintsCreate ==
    /\ pc = "main"
    /\ input.kind = "board"
    /\ LET c == nonogram_hints_create(input.cells, input.rows_count, input.cols_count) IN
       /\ hints' = c.hints
       /\ created' = [called |-> TRUE, rows_count |-> input.rows_count,
                      cols_count |-> input.cols_count, allocs |-> c.allocs,
                      reads |-> c.reads, ok |-> c.hints # NULL]
       /\ pc' = IF c.hints = NULL THEN "exit_failure" ELSE "solve"
    /\ UNCHANGED <<input, board, stack, ret, invoked, out, string, call>>

\* solve_nonogram up to its call of solve_recursive(board, 0, 0, ...)
SolveNonogram_zeroed ==
    /\ pc = "solve"
    /\ invoked' = TRUE
    /\ board' = [r \in 0 .. hints.rows_count - 1 |-> ArrayOf(hints.cols_count, 0)]
    /\ stack' = <<Frame(0, 0, "L191")>>
    /\ ret' = "none"
    /\ pc' = "search"
    /\ UNCHANGED <<input, hints, created, out, string, call>>

SolveNonogram ==
    /\ pc = "solve"
    /\ invoked' = TRUE
    /\ board' = [r \in 0 .. hints.rows_count - 1 |-> ArrayOf(hints.cols_count, -1)]
    /\ stack' = <<Frame(0, 0, "L191")>>
    /\ ret' = "none"
    /\ pc' = "search"
    /\ UNCHANGED <<input, hints, created, out, string, call>>

\* solve_recursive from its entry to the store of 1
Entry ==
    /\ pc = "search"
    /\ stack # << >>
    /\ Top.at = "L191"
    /\ IF Top.row = hints.rows_count
       THEN /\ ret' = Bool(_base_case(board, hints.rows_count, hints.cols_count, hints))
            /\ stack' = Pop
            /\ board' = board
       ELSE IF board[Top.row][Top.col] = 1
       THEN /\ stack' = CallNext("L201")
            /\ UNCHANGED <<board, ret>>
       ELSE /\ board' = [board EXCEPT ![Top.row][Top.col] = 1]
            /\ stack' = Append(Pop, [Top EXCEPT !.at = "L206"])
            /\ ret' = ret
    /\ UNCHANGED <<input, pc, hints, created, invoked, out, string, call>>

\* the test of the cell at 1 and the call it guards
CheckFilled_unchecked ==
    /\ pc = "search"
    /\ stack # << >>
    /\ Top.at = "L206"
    /\ stack' = CallNext("L207")
    /\ UNCHANGED <<input, pc, hints, created, board, ret, invoked, out, string, call>>

CheckFilled_marking ==
    /\ pc = "search"
    /\ stack # << >>
    /\ Top.at = "L206"
    /\ IF is_valid_move(board, Top.row, Top.col, hints)
       THEN /\ stack' = CallNext("L207")
            /\ board' = board
       ELSE /\ stack' = Append(Pop, [Top EXCEPT !.at = "L213"])
            /\ board' = [board EXCEPT ![Top.row][Top.col] = -1]
    /\ UNCHANGED <<input, pc, hints, created, ret, invoked, out, string, call>>

CheckFilled ==
    /\ pc = "search"
    /\ stack # << >>
    /\ Top.at = "L206"
    /\ stack' = IF is_valid_move(board, Top.row, Top.col, hints)
                THEN CallNext("L207")
                ELSE Append(Pop, [Top EXCEPT !.at = "L213"])
    /\ UNCHANGED <<input, pc, hints, created, board, ret, invoked, out, string, call>>

\* the store of 0, its test and the call it guards
PlaceEmpty ==
    /\ pc = "search"
    /\ stack # << >>
    /\ Top.at = "L213"
    /\ board' = [board EXCEPT ![Top.row][Top.col] = 0]
    /\ stack' = IF is_valid_move(board', Top.row, Top.col, hints)
                THEN CallNext("L215")
                ELSE Append(Pop, [Top EXCEPT !.at = "L221"])
    /\ UNCHANGED <<input, pc, hints, created, ret, invoked, out, string, call>>

\* the backtrack: the cell is set to -1 and the call returns false
Backtrack_keep ==
    /\ pc = "search"
    /\ stack # << >>
    /\ Top.at = "L221"
    /\ board' = board
    /\ ret' = "false"
    /\ stack' = Pop
    /\ UNCHANGED <<input, pc, hints, created, invoked, out, string, call>>

Backtrack ==
    /\ pc = "search"
    /\ stack # << >>
    /\ Top.at = "L221"
    /\ board' = [board EXCEPT ![Top.row][Top.col] = -1]
    /\ ret' = "false"
    /\ stack' = Pop
    /\ UNCHANGED <<input, pc, hints, created, invoked, out, string, call>>

\* a call made by the top frame has returned ret
Return_deaf ==
    /\ pc = "search"
    /\ stack # << >>
    /\ Top.at \in {"L201", "L207", "L215"}
    /\ ret # "none"
    /\ IF Top.at = "L201"
       THEN /\ stack' = Pop
            /\ ret' = ret
       ELSE /\ stack' = Append(Pop, [Top EXCEPT !.at = IF Top.at = "L207" THEN "L213"
                                                                          ELSE "L221"])
            /\ ret' = "none"
    /\ UNCHANGED <<input, pc, hints, created, board, invoked, out, string, call>>

Return_again ==
    /\ pc = "search"
    /\ stack # << >>
    /\ Top.at \in {"L201", "L207", "L215"}
    /\ ret # "none"
    /\ IF Top.at = "L201" \/ ret = "true"
       THEN /\ stack' = Pop
            /\ ret' = ret
       ELSE /\ stack' = Append(Pop, [Top EXCEPT !.at = "L213"])
            /\ ret' = "none"
    /\ UNCHANGED <<input, pc, hints, created, board, invoked, out, string, call>>

Return ==
    /\ pc = "search"
    /\ stack # << >>
    /\ Top.at \in {"L201", "L207", "L215"}
    /\ ret # "none"
    /\ IF Top.at = "L201" \/ ret = "true"
       THEN /\ stack' = Pop
            /\ ret' = ret
       ELSE /\ stack' = Append(Pop, [Top EXCEPT !.at = IF Top.at = "L207" THEN "L213"
                                                                          ELSE "L221"])
            /\ ret' = "none"
    /\ UNCHANGED <<input, pc, hints, created, board, invoked, out, string, call>>

\* solve_nonogram after solve_recursive returned, and the end of main
Finish ==
    /\ pc = "search"
    /\ stack = << >>
    /\ ret # "none"
    /\ out' = out \o (IF ret = "false" THEN <<Stderr("Unsolvable puzzle")>> ELSE << >>)
                  \o <<Stdout(print_solution(board, hints.rows_count, hints.cols_count))>>
    /\ pc' = "exit_success"
    /\ UNCHANGED <<input, hints, created, board, stack, ret, invoked, string, call>>

Search == Entry \/ CheckFilled \/ PlaceEmpty \/ Backtrack \/ Return

\* the program run on a JSON file
Init ==
    /\ input \in JsonInputs
    /\ InitCommon

Next == ReadJsonFile \/ SolveNonogram \/ Entry \/ CheckFilled \/ PlaceEmpty
        \/ Backtrack \/ Return \/ Finish

Spec == Init /\ [][Next]_vars

\* once main has its hints the program keeps running as long as the solver
\* has a step to take
SpecFair == Init /\ [][Next]_vars /\ WF_vars(SolveNonogram \/ Search)

\* the solver run on the hints of a known 0/1 board
InitBoard ==
    /\ input \in BoardInputs("board", Dims)
    /\ InitCommon

NextBoard == HintsCreate \/ SolveNonogram \/ Entry \/ CheckFilled \/ PlaceEmpty
             \/ Backtrack \/ Return \/ Finish

SpecBoard == InitBoard /\ [][NextBoard]_vars

-----------------------------------------------------------------------------
(* The library called on the hints of a known board.  The calls that leave *)
(* the library's state alone end the run; nonogram_hints_to_string, which   *)
(* keeps a static buffer, can be called again and again.                    *)

\* the indices the accessors are called with, on both sides of the arrays
Indices == -1 .. MaxCells

GetRowValue ==
    /\ pc = "lib"
    /\ \E row \in Indices, index \in Indices :
          \E res \in nonogram_hints_get_row_value(hints, row, index) :
              call' = [op |-> "get_row_value", line |-> row, index |-> index,
                       result |-> res]
    /\ UNCHANGED <<input, hints, created, board, stack, ret, invoked, out, string>>
    /\ pc' = "called"

GetColValue ==
    /\ pc = "lib"
    /\ \E col \in Indices, index \in Indices :
          \E res \in nonogram_hints_get_col_value(hints, col, index) :
              call' = [op |-> "get_col_value", line |-> col, index |-> index,
                       result |-> res]
    /\ UNCHANGED <<input, hints, created, board, stack, ret, invoked, out, string>>
    /\ pc' = "called"

\* nonogram_hints_to_string(hints), or nonogram_hints_to_string(NULL)
HintsToString ==
    /\ pc = "lib"
    /\ \E h \in {hints, NULL} :
          LET r == nonogram_hints_to_string(string, h) IN
          /\ string' = r.buf
          /\ call' = [op |-> "to_string", arg |-> h, result |-> r.result]
    /\ UNCHANGED <<input, pc, hints, created, board, stack, ret, invoked, out>>

\* read_json_file on a file that holds the text nonogram_hints_to_string
\* returned last
ReadBack ==
    /\ pc = "lib"
    /\ string # << >>
    /\ \E zeroAllocNull \in BOOLEAN :
          LET r == read_json_file(CString(string), zeroAllocNull) IN
          call' = [op |-> "read_json_file", text |-> CString(string),
                   result |-> r.hints, err |-> r.err]
    /\ UNCHANGED <<input, hints, created, board, stack, ret, invoked, out, string>>
    /\ pc' = "called"

\* is_solved(b, rows, cols, hints) on any board of the grid
IsSolved ==
    /\ pc = "lib"
    /\ \E b \in Boards3(<<hints.rows_count, hints.cols_count>>) :
          call' = [op |-> "is_solved", board |-> b,
                   result |-> is_solved(b, hints.rows_count, hints.cols_count, hints)]
    /\ UNCHANGED <<input, hints, created, board, stack, ret, invoked, out, string>>
    /\ pc' = "called"

\* is_valid_move(b, row, col, hints) on any board of the grid and any cell
IsValidMove ==
    /\ pc = "lib"
    /\ \E b \in Boards3(<<hints.rows_count, hints.cols_count>>) :
          \E row \in 0 .. hints.rows_count - 1, col \in 0 .. hints.cols_count - 1 :
              call' = [op |-> "is_valid_move", board |-> b, row |-> row, col |-> col,
                       result |-> is_valid_move(b, row, col, hints)]
    /\ UNCHANGED <<input, hints, created, board, stack, ret, invoked, out, string>>
    /\ pc' = "called"

InitLib ==
    /\ input \in BoardInputs("lib", GridDims)
    /\ pc = "lib"
    /\ hints = nonogram_hints_create(input.cells, input.rows_count, input.cols_count).hints
    /\ created = NoCreate
    /\ board = << >>
    /\ stack = << >>
    /\ ret = "none"
    /\ invoked = FALSE
    /\ out = << >>
    /\ string = << >>
    /\ call = NoCall

NextLib == GetRowValue \/ GetColValue \/ HintsToString \/ ReadBack \/ IsSolved
           \/ IsValidMove

SpecLib == InitLib /\ [][NextLib]_vars

-----------------------------------------------------------------------------
(* solve_recursive called at (0,0) on a board some of whose cells are set   *)
(* already, with the hints of a known board.                                *)

\* a 0/1 board for the hints and a board to start the search on
SeededInputs ==
    UNION {
        {[kind |-> "seeded", rows_count |-> d[1], cols_count |-> d[2],
          cells |-> b, seed |-> s] :
            b \in Boards01(d), s \in Boards3(d)} :
        d \in GridDims}

\* the call solve_recursive(seed, 0, 0, rows, cols, hints)
SolveRecursive ==
    /\ pc = "lib"
    /\ input.kind = "seeded"
    /\ board' = input.seed
    /\ stack' = <<Frame(0, 0, "L191")>>
    /\ ret' = "none"
    /\ pc' = "search"
    /\ UNCHANGED <<input, hints, created, invoked, out, string, call>>

InitSeeded ==
    /\ input \in SeededInputs
    /\ pc = "lib"
    /\ hints = nonogram_hints_create(input.cells, input.rows_count, input.cols_count).hints
    /\ created = NoCreate
    /\ board = << >>
    /\ stack = << >>
    /\ ret = "none"
    /\ invoked = FALSE
    /\ out = << >>
    /\ string = << >>
    /\ call = NoCall

NextSeeded == SolveRecursive \/ Entry \/ CheckFilled \/ PlaceEmpty \/ Backtrack \/ Return

SpecSeeded == InitSeeded /\ [][NextSeeded]_vars

-----------------------------------------------------------------------------
(* nonogram_hints_to_string called on several models in turn: the static   *)
(* buffer is shared by all the calls of the process.                       *)

\* the other models of a run: those of the boards of the shortest and of
\* the longest single row
Models ==
    {nonogram_hints_create(i.cells, i.rows_count, i.cols_count).hints :
        i \in BoardInputs("lib", {<<1, 1>>, <<1, MaxCells>>})}

\* nonogram_hints_to_string on another model, or on NULL
ToStringOther ==
    /\ pc = "lib"
    /\ \E h \in (Models \ {hints}) \cup {NULL} :
          LET r == nonogram_hints_to_string(string, h) IN
          /\ string' = r.buf
          /\ call' = [op |-> "to_string_other", null |-> h = NULL]
    /\ UNCHANGED <<input, pc, hints, created, board, stack, ret, invoked, out>>

\* nonogram_hints_to_string(hints); before is the text the static buffer
\* held on entry
ToStringOwn ==
    /\ pc = "lib"
    /\ LET r == nonogram_hints_to_string(string, hints) IN
          /\ string' = r.buf
          /\ call' = [op |-> "to_string", arg |-> hints, result |-> r.result,
                      before |-> CString(string)]
    /\ UNCHANGED <<input, pc, hints, created, board, stack, ret, invoked, out>>

NextText == ToStringOther \/ ToStringOwn

SpecText == InitLib /\ [][NextText]_vars

-----------------------------------------------------------------------------
(* The array accesses of the two checks and of _nonogram_hints_fill on any *)
(* board of the grid of the hints.                                         *)

IsValidMoveAccesses ==
    /\ pc = "lib"
    /\ \E b \in Boards3(<<hints.rows_count, hints.cols_count>>) :
          \E row \in 0 .. hints.rows_count - 1, col \in 0 .. hints.cols_count - 1 :
              call' = [op |-> "is_valid_move", board |-> b, row |-> row, col |-> col,
                       accesses |-> is_valid_move_accesses(b, row, col, hints)]
    /\ UNCHANGED <<input, hints, created, board, stack, ret, invoked, out, string>>
    /\ pc' = "called"

IsSolvedAccesses ==
    /\ pc = "lib"
    /\ \E b \in Boards3(<<hints.rows_count, hints.cols_count>>) :
          call' = [op |-> "is_solved", board |-> b,
                   accesses |-> is_solved_accesses(b, hints.rows_count,
                                                   hints.cols_count, hints)]
    /\ UNCHANGED <<input, hints, created, board, stack, ret, invoked, out, string>>
    /\ pc' = "called"

HintsFillAccesses ==
    /\ pc = "lib"
    /\ \E b \in Boards3(<<hints.rows_count, hints.cols_count>>) :
          call' = [op |-> "_nonogram_hints_fill", board |-> b,
                   accesses |-> _nonogram_hints_fill_accesses(b, hints.rows_count,
                                                              hints.cols_count)]
    /\ UNCHANGED <<input, hints, created, board, stack, ret, invoked, out, string>>
    /\ pc' = "called"

NextIndex == IsValidMoveAccesses \/ IsSolvedAccesses \/ HintsFillAccesses

SpecIndex == InitLib /\ [][NextIndex]_vars

-----------------------------------------------------------------------------
(* _nonogram_hints_new with an allocation that may fail *)

\* the counts the object is asked for
AllocInputs ==
    {[kind |-> "alloc", rows_count |-> d[1], cols_count |-> d[2]] : d \in Dims}

\* the call _nonogram_hints_new(rows_count, cols_count) in which no
\* allocation fails (fail = 0) or the one numbered fail does
HintsNew ==
    /\ pc = "alloc"
    /\ \E fail \in 0 .. 3 + input.rows_count + input.cols_count :
          LET r == _nonogram_hints_new_failing(input.rows_count, input.cols_count, fail) IN
          /\ hints' = r.hints
          /\ call' = [op |-> "_nonogram_hints_new", fail |-> fail,
                      allocs |-> r.allocs, frees |-> r.frees]
    /\ pc' = "called"
    /\ UNCHANGED <<input, created, board, stack, ret, invoked, out, string>>

InitAlloc ==
    /\ input \in AllocInputs
    /\ pc = "alloc"
    /\ hints = NULL
    /\ created = NoCreate
    /\ board = << >>
    /\ stack = << >>
    /\ ret = "none"
    /\ invoked = FALSE
    /\ out = << >>
    /\ string = << >>
    /\ call = NoCall

NextAlloc == HintsNew

SpecAlloc == InitAlloc /\ [][NextAlloc]_vars

-----------------------------------------------------------------------------
(* The greedy variant: parse_json, fill_row, update_cols and                *)
(* solve_nonogram(hints, board) of src/unnamed/part_001.  Its hint arrays   *)
(* hold the runs of a line and a closing zero.                              *)

MAX_HINTS == 32

\* parse_json, from the two lists of the file on: one array of count + 1 ints
\* per list, the numbers of the list and then 0
parse_json(in) ==
    NonoGramHints(Len(in.rows), Len(in.cols),
        [i \in 0 .. Len(in.rows) - 1 |-> SeqToArray(Append(in.rows[i + 1], 0))],
        [i \in 0 .. Len(in.cols) - 1 |-> SeqToArray(Append(in.cols[i + 1], 0))])

\* the loop 'for (j = 0; j < hint; j++) if (col < cols_count) row[col++] = 1'
RECURSIVE _fill_block(_, _, _, _)
_fill_block(st, cols_count, hint, j) ==
    IF ~(j < hint) THEN st
    ELSE IF st.col < cols_count
         THEN _fill_block([row |-> [st.row EXCEPT ![st.col] = 1], col |-> st.col + 1],
                          cols_count, hint, j + 1)
         ELSE _fill_block(st, cols_count, hint, j + 1)

\* the loop of fill_row over the hints from hint i on; st is the row and col
RECURSIVE _fill_row(_, _, _, _)
_fill_row(row_hints, st, cols_count, i) ==
    IF ~(i < MAX_HINTS /\ row_hints[i] # 0) THEN st.row
    ELSE LET b == _fill_block(st, cols_count, row_hints[i], 0) IN
         IF b.col < cols_count /\ i < MAX_HINTS - 1 /\ row_hints[i + 1] # 0
         THEN _fill_row(row_hints, [row |-> [b.row EXCEPT ![b.col] = 0], col |-> b.col + 1],
                        cols_count, i + 1)
         ELSE _fill_row(row_hints, b, cols_count, i + 1)

\* fill_row(row_hints, row, cols_count): the row it leaves
fill_row(row_hints, row, cols_count) ==
    _fill_row(row_hints, [row |-> row, col |-> 0], cols_count, 0)

\* update_cols: the board it leaves.  The function counts the filled cells
\* and the matched hints of every column in local variables and stores
\* nothing.
update_cols_clearing(b, cols_hints, rows_count, cols_count) ==
    [row \in 0 .. rows_count - 1 |->
        [col \in 0 .. cols_count - 1 |->
            IF cols_hints[col][0] = 0 THEN 0 ELSE b[row][col]]]

update_cols(b, cols_hints, rows_count, cols_count) == b

\* the boards solve_nonogram(hints, board) is given: all cells alike
UniformBoards(d) == {[r \in 0 .. d[1] - 1 |-> ArrayOf(d[2], v)] : v \in {0, 1}}

GreedyInputs ==
    UNION {
        {[kind |-> "greedy", rows_count |-> in.rows_count, cols_count |-> in.cols_count,
          rows |-> in.rows, cols |-> in.cols, start |-> b] :
            b \in UniformBoards(<<in.rows_count, in.cols_count>>)} :
        in \in {i \in JsonInputs : i.rows_count > 0 /\ i.cols_count > 0}}

\* the call of fill_row of the loop of solve_nonogram(hints, board)
FillRow ==
    /\ pc = "greedy_fill"
    /\ call.row < hints.rows_count
    /\ board' = [board EXCEPT ![call.row] =
                     fill_row(hints.rows[call.row], board[call.row], hints.cols_count)]
    /\ pc' = "greedy_update"
    /\ UNCHANGED <<input, hints, created, stack, ret, invoked, out, string, call>>

\* the call of update_cols of the loop, and the step to the next row
UpdateCols ==
    /\ pc = "greedy_update"
    /\ board' = update_cols(board, hints.cols, hints.rows_count, hints.cols_count)
    /\ call' = [call EXCEPT !.row = call.row + 1]
    /\ pc' = "greedy_fill"
    /\ UNCHANGED <<input, hints, created, stack, ret, invoked, out, string>>

InitGreedy ==
    /\ input \in GreedyInputs
    /\ pc = "greedy_fill"
    /\ hints = parse_json(input)
    /\ created = NoCreate
    /\ board = input.start
    /\ stack = << >>
    /\ ret = "none"
    /\ invoked = FALSE
    /\ out = << >>
    /\ string = << >>
    /\ call = [op |-> "solve_nonogram", row |-> 0]

NextGreedy == FillRow \/ UpdateCols

SpecGreedy == InitGreedy /\ [][NextGreedy]_vars

-----------------------------------------------------------------------------
(* What the hints mean: the runs of a line, by definition *)

\* the cells at which a block of filled cells starts
BlockStarts(line, n) ==
    {i \in 0 .. n - 1 : line[i] = 1 /\ (i = 0 \/ line[i - 1] # 1)}

\* the length of the block that starts at cell i
BlockLen(line, n, i) ==
    (CHOOSE j \in i + 1 .. n :
        /\ \A k \in i .. j - 1 : line[k] = 1
        /\ (j = n \/ line[j] # 1)) - i

RECURSIVE Ascending(_)
Ascending(S) ==
    IF S = {} THEN << >>
    ELSE LET m == CHOOSE x \in S : \A y \in S : x <= y IN <<m>> \o Ascending(S \ {m})

\* the lengths of the maximal blocks of filled cells of a line, in scan order
RunsOf(line, n) ==
    LET starts == Ascending(BlockStarts(line, n)) IN
    [k \in 1 .. Len(starts) |-> BlockLen(line, n, starts[k])]

\* the runs of every row and of every column of a board
RowRuns(b, rows, cols) == [r \in 1 .. rows |-> RunsOf(b[r - 1], cols)]

ColRuns(b, rows, cols) == [c \in 1 .. cols |-> RunsOf(Column(b, rows, c - 1), rows)]

\* the run list a hint array of n slots stands for: its values before the
\* first zero
HintRuns(arr, n) ==
    LET zeros == {i \in 0 .. n - 1 : arr[i] = 0}
        end == IF zeros = {} THEN n ELSE CHOOSE i \in zeros : \A j \in zeros : i <= j
    IN [k \in 1 .. end |-> arr[k - 1]]

\* the run lists of the hints object h
HintRowRuns(h) == [r \in 1 .. h.rows_count |-> HintRuns(h.rows[r - 1], h.cols_count)]

HintColRuns(h) == [c \in 1 .. h.cols_count |-> HintRuns(h.cols[c - 1], h.rows_count)]

\* the full 0/1 boards that satisfy every row and column hint of h
Solutions(h) ==
    {b \in Boards01(<<h.rows_count, h.cols_count>>) :
        /\ RowRuns(b, h.rows_count, h.cols_count) = HintRowRuns(h)
        /\ ColRuns(b, h.rows_count, h.cols_count) = HintColRuns(h)}

\* the full 0/1 boards whose runs are those of the hint description in
InputSolutions(in) ==
    {b \in Boards01(<<in.rows_count, in.cols_count>>) :
        /\ RowRuns(b, in.rows_count, in.cols_count) = in.rows
        /\ ColRuns(b, in.rows_count, in.cols_count) = in.cols}

\* the cells of a grid in row-major order
CellIndex(r, c, cols) == r * cols + c

\* b comes before o in scan order with Filled before Empty: at the first
\* cell where they differ, b is filled
ScanBefore(b, o, rows, cols) ==
    \E r \in 0 .. rows - 1, c \in 0 .. cols - 1 :
        /\ b[r][c] = 1 /\ o[r][c] = 0
        /\ \A r2 \in 0 .. rows - 1, c2 \in 0 .. cols - 1 :
              CellIndex(r2, c2, cols) < CellIndex(r, c, cols) => b[r2][c2] = o[r2][c2]

\* the first of the boards S of a rows x cols grid in that order
First(S, rows, cols) ==
    CHOOSE b \in S : \A o \in S \ {b} : ScanBefore(b, o, rows, cols)

\* no cell of the board is unknown
FullyAssigned(b) == \A r \in DOMAIN b : \A c \in DOMAIN b[r] : b[r][c] \in {0, 1}

\* the line of n cells has no unknown cell
LineAssigned(line, n) == \A i \in 0 .. n - 1 : line[i] \in {0, 1}

\* the unknown cells of the line can be given values so that its runs are runs
Completable(line, n, runs) ==
    \E full \in [0 .. n - 1 -> {0, 1}] :
        /\ \A i \in 0 .. n - 1 : line[i] # -1 => full[i] = line[i]
        /\ RunsOf(full, n) = runs

\* the cursor of every frame lies between (0,0) and the past-the-end
\* position (rows, 0)
CursorInRange ==
    \A i \in 1 .. Len(stack) :
        \/ /\ stack[i].row \in 0 .. hints.rows_count - 1
           /\ stack[i].col \in 0 .. hints.cols_count - 1
        \/ /\ stack[i].row = hints.rows_count
           /\ stack[i].col = 0

\* the place of a frame's cursor in row-major order; rows * cols for the
\* past-the-end position
CursorIndex(f) == CellIndex(f.row, f.col, hints.cols_count)

\* the cells before place idx are filled or empty, the cells from idx on are
\* unknown
CommittedBefore(idx) ==
    \A r \in 0 .. hints.rows_count - 1, c \in 0 .. hints.cols_count - 1 :
        IF CellIndex(r, c, hints.cols_count) < idx
        THEN board[r][c] \in {0, 1}
        ELSE board[r][c] = -1

\* the step is a call of solve_recursive made by the frame on top
Calls == pc = "search" /\ stack # << >> /\ Len(stack') = Len(stack) + 1

\* the step is the return of the frame on top
Returns == pc = "search" /\ stack # << >> /\ Len(stack') = Len(stack) - 1

\* the step leaves the frame on top where it is in the stack
Stays == pc = "search" /\ stack # << >> /\ Len(stack') = Len(stack)

\* the frame on top stands at a cell of the grid
AtCell == Top.row < hints.rows_count

\* the position after (row, col) in row-major order
Successor(row, col, cols) ==
    IF col < cols - 1 THEN <<row, col + 1>> ELSE <<row + 1, 0>>

\* what the step does to the labels of a frame that tried both values, or
\* left its cell alone because it was filled already (kept says whether
\* such a frame may return false)
ReturnsFalseOnlyExhausted(kept) ==
    /\ (Returns /\ AtCell /\ ret' = "false")
          => (Top.at = "L221" \/ (kept /\ Top.at = "L201"))
    /\ (Stays /\ stack'[Len(stack)].at = "L221")
          => \/ /\ Top.at = "L213"
                /\ board'[Top.row][Top.col] = 0
                /\ ~is_valid_move(board', Top.row, Top.col, hints)
             \/ Top.at = "L215" /\ ret = "false"

\* the cursor moves in row-major order and a call is made only with the
\* cell of the caller committed
AdvancesOnCommit ==
    Calls => /\ <<stack'[Len(stack')].row, stack'[Len(stack')].col>>
                   = Successor(Top.row, Top.col, hints.cols_count)
             /\ stack'[Len(stack)].row = Top.row
             /\ stack'[Len(stack)].col = Top.col
             /\ board'[Top.row][Top.col] \in {0, 1}
             /\ stack'[Len(stack)].at = "L201" => board[Top.row][Top.col] = 1

\* the hint array arr of n slots holds the runs, in order, and then zeros
HoldsRuns(arr, n, runs) ==
    /\ DOMAIN arr = 0 .. n - 1
    /\ \A i \in 0 .. n - 1 : arr[i] = IF i < Len(runs) THEN runs[i + 1] ELSE 0

\* the cell at which run k of the run list q starts when the runs are
\* packed to the left with one cell between two
PackedStart(q, k) == SumSeq(SubSeq(q, 1, k - 1)) + (k - 1)

\* the row of cols cells that has the runs of q packed to the left, one
\* empty cell after every run but the last, and the cells of old elsewhere
PackedRow(q, old, cols) ==
    [c \in 0 .. cols - 1 |->
        IF \E k \in 1 .. Len(q) : c \in PackedStart(q, k) .. PackedStart(q, k) + q[k] - 1
        THEN 1
        ELSE IF \E k \in 1 .. Len(q) - 1 : c = PackedStart(q, k) + q[k]
        THEN 0
        ELSE old[c]]

\* the loop of the greedy solve_nonogram has ended
GreedyDone == pc = "greedy_fill" /\ call.row = hints.rows_count

\* no two cells of b that are neighbours in a row or in a column are both
\* filled
NoAdjacentFilled(b, rows, cols) ==
    /\ \A r \in 0 .. rows - 1, c \in 0 .. cols - 2 : ~(b[r][c] = 1 /\ b[r][c + 1] = 1)
    /\ \A r \in 0 .. rows - 2, c \in 0 .. cols - 1 : ~(b[r][c] = 1 /\ b[r + 1][c] = 1)

\* the number of times x occurs in the sequence q
Occurrences(q, x) == Cardinality({i \in 1 .. Len(q) : q[i] = x})

\* every line of the description has room for its runs
WellFormed(in) == OverLines(in) = {}

\* the outermost call of solve_recursive has returned
Returned == pc \in {"search", "exit_success"} /\ stack = << >> /\ ret # "none"

-----------------------------------------------------------------------------
(* The claims *)

\* C1: completeness of the search.  For well-formed hints for which a full
\* Filled/Empty assignment satisfies every row and column hint, the search
\* started at (0,0) on an all-unknown board returns true; so it returns
\* false only when no such assignment exists.
C1_Complete ==
    (Returned /\ input.kind = "json" /\ WellFormed(input) /\ InputSolutions(input) # {})
        => ret = "true"

\* C2: on the hints of a 0/1 board, when the search from the all-unknown
\* board returns true, is_solved accepts the board it leaves.
C2_SolvedIsAccepted ==
    (Returned /\ input.kind = "board" /\ ret = "true")
        => is_solved(board, hints.rows_count, hints.cols_count, hints)

C2_Witness ==
    /\ Returned /\ input.kind = "board" /\ ret = "true"
    /\ \E r \in DOMAIN board : \E c \in DOMAIN board[r] : board[r][c] = 1
    /\ \E r \in DOMAIN board : \E c \in DOMAIN board[r] : board[r][c] = 0

\* C3: for a puzzle with several solutions the search returns the first one
\* in row-major scan order with Filled before Empty, and is_solved accepts
\* it; so on the 2x2 puzzle rows [[1],[1]], cols [[1],[1]].
C3_FirstSolution ==
    (Returned /\ input.kind = "json" /\ WellFormed(input)
        /\ Cardinality(InputSolutions(input)) >= 2)
        => /\ ret = "true"
           /\ board = First(InputSolutions(input), input.rows_count, input.cols_count)
           /\ is_solved(board, hints.rows_count, hints.cols_count, hints)

\* C4: on a 1x1 grid the search ends solved with the cell filled when the
\* row and column hints are both [1], and solved with the cell empty when
\* both are empty, which the hints object stores as [0].
C4_OneByOne ==
    (Returned /\ input.kind = "json" /\ input.rows_count = 1 /\ input.cols_count = 1)
        => /\ (input.rows = << <<1>> >> /\ input.cols = << <<1>> >>)
                => (ret = "true" /\ board[0][0] = 1)
           /\ (input.rows = << << >> >> /\ input.cols = << << >> >>)
                => (ret = "true" /\ board[0][0] = 0
                    /\ hints.rows[0][0] = 0 /\ hints.cols[0][0] = 0)

C4_Witness ==
    /\ Returned /\ input.kind = "json" /\ input.rows_count = 1 /\ input.cols_count = 1
    /\ input.rows = << <<1>> >> /\ input.cols = << <<1>> >>
    /\ board[0][0] = 1

\* C5: a hint description with a line whose runs do not fit is rejected when
\* the hints object is built: no object comes out of the construction and
\* solve_nonogram is never called on it.
C5_MalformedRejected ==
    (input.kind = "json" /\ ~WellFormed(input) /\ pc # "main")
        => (hints = NULL /\ ~invoked /\ pc = "exit_failure")

\* C6: nonogram_hints_create with a count of zero returns no object, having
\* allocated nothing and read no board cell, and main then never calls the
\* solver.
C6_DegenerateFails ==
    /\ (created.called /\ (created.rows_count = 0 \/ created.cols_count = 0))
          => (~created.ok /\ created.allocs = 0 /\ created.reads = 0 /\ hints = NULL)
    /\ (input.kind = "json" /\ (input.rows_count = 0 \/ input.cols_count = 0))
          => (~invoked /\ pc \in {"main", "exit_failure"})

C6_Witness ==
    /\ created.called /\ created.cols_count = 0 /\ created.rows_count > 0
    /\ pc = "exit_failure"

\* C7: the accessors fail for every line index and run index outside the
\* dimensions of the object, on either side, and return the stored value
\* when both are inside.
C7_AccessorsChecked ==
    /\ call.op = "get_row_value" =>
          IF call.line \in 0 .. hints.rows_count - 1
             /\ call.index \in 0 .. hints.cols_count - 1
          THEN call.result = [kind |-> "value", value |-> hints.rows[call.line][call.index]]
          ELSE call.result.kind = "assert"
    /\ call.op = "get_col_value" =>
          IF call.line \in 0 .. hints.cols_count - 1
             /\ call.index \in 0 .. hints.rows_count - 1
          THEN call.result = [kind |-> "value", value |-> hints.cols[call.line][call.index]]
          ELSE call.result.kind = "assert"

\* the text {"rows":[...],"cols":[...]} of the runs of a board
CanonicalText(b, rows, cols) ==
    <<"{">> \o K_rows \o <<":", "[">> \o ListsBody(RowRuns(b, rows, cols)) \o <<"]">>
    \o <<",">> \o K_cols \o <<":", "[">> \o ListsBody(ColRuns(b, rows, cols))
    \o <<"]", "}">>

\* C8: nonogram_hints_to_string renders {"rows":[...],"cols":[...]}, one
\* bracketed list per row in row order and then per column in column order,
\* each holding the runs of that line in scan order separated by commas, no
\* zero among them, a line without runs as [].
C8_TextFormat ==
    (call.op = "to_string" /\ call.arg # NULL)
        => /\ ~call.result.isnull
           /\ call.result.text
                = CanonicalText(input.cells, input.rows_count, input.cols_count)

C8_Witness ==
    /\ call.op = "to_string" /\ call.arg # NULL
    /\ \E r \in 1 .. input.rows_count :
          Len(RowRuns(input.cells, input.rows_count, input.cols_count)[r]) >= 2
    /\ \E c \in 1 .. input.cols_count :
          ColRuns(input.cells, input.rows_count, input.cols_count)[c] = << >>

\* C9: round trip.  The text of the hints of a 0/1 board, decoded by
\* read_json_file, gives an object with the same row and column runs.
C9_RoundTrip ==
    call.op = "read_json_file"
        => /\ call.result # NULL
           /\ HintRowRuns(call.result) = HintRowRuns(hints)
           /\ HintColRuns(call.result) = HintColRuns(hints)

\* C10: is_solved returns false for every board with an unknown cell,
\* whatever the hints.
C10_UnknownNotSolved ==
    (call.op = "is_solved"
        /\ \E r \in DOMAIN call.board : \E c \in DOMAIN call.board[r] :
              call.board[r][c] = -1)
        => ~call.result

\* C11: for a fully assigned board and the hints of a 0/1 board, is_solved
\* returns true exactly when the runs of every row and of every column are
\* the runs of its hint, wherever the empty cells lie.
C11_SolvedIffRuns ==
    (call.op = "is_solved" /\ FullyAssigned(call.board))
        => (call.result <=> call.board \in Solutions(hints))

\* C15: the pruning check is a prefix check.  is_valid_move does not reject
\* a board whose row and column at the cell can each still be completed, by
\* giving values to their unknown cells, to the runs of their hints; a run
\* followed by an unknown cell is not compared as a finished run.
C15_PrefixCheck ==
    (call.op = "is_valid_move"
        /\ Completable(call.board[call.row], hints.cols_count,
                       HintRuns(hints.rows[call.row], hints.cols_count))
        /\ Completable(Column(call.board, hints.rows_count, call.col), hints.rows_count,
                       HintRuns(hints.cols[call.col], hints.rows_count)))
        => call.result

\* C16: for a row or a column without unknown cell whose runs are not the
\* runs of its hint (a run of another length, or more or fewer runs),
\* is_valid_move returns false.
C16_FullLineChecked ==
    (call.op = "is_valid_move"
        /\ \/ /\ LineAssigned(call.board[call.row], hints.cols_count)
              /\ RunsOf(call.board[call.row], hints.cols_count)
                    # HintRuns(hints.rows[call.row], hints.cols_count)
           \/ /\ LineAssigned(Column(call.board, hints.rows_count, call.col),
                               hints.rows_count)
              /\ RunsOf(Column(call.board, hints.rows_count, call.col), hints.rows_count)
                    # HintRuns(hints.cols[call.col], hints.rows_count))
        => ~call.result

\* C12: when solve_recursive is started on a board with cells set already,
\* every cell that was filled or empty at the start holds that value
\* throughout the search and at its return.
C12_SeededKept ==
    (input.kind = "seeded" /\ pc = "search")
        => \A r \in 0 .. input.rows_count - 1, c \in 0 .. input.cols_count - 1 :
              input.seed[r][c] \in {0, 1} => board[r][c] = input.seed[r][c]

\* C13: solve_nonogram hands a board to print_solution only when the board
\* is fully assigned; when the search found no solution it writes the
\* unsolvable message and renders no board.
C13_RenderOnlySolved ==
    pc = "exit_success"
        => /\ ret = "false" =>
                /\ \E i \in 1 .. Len(out) : out[i] = Stderr("Unsolvable puzzle")
                /\ \A i \in 1 .. Len(out) : out[i].fd # "stdout"
           /\ (\E i \in 1 .. Len(out) : out[i].fd = "stdout") => FullyAssigned(board)

\* C14: for every grid with at least one row and one column and every hints
\* object, solve_recursive started at (0,0) returns in the end, with true or
\* with false, and no cursor ever leaves the range from (0,0) to (rows, 0).
C14_Terminates ==
    /\ [](pc = "search" => CursorInRange)
    /\ [](Returned => ret \in {"true", "false"})
    /\ (pc = "solve") ~> Returned

C14_Witness ==
    /\ Returned /\ ret = "false"
    /\ input.rows_count = 2 /\ input.cols_count = 2

\* C17: in a solve started by solve_nonogram from the all-unknown board, at
\* every entry of solve_recursive every cell before the cursor in row-major
\* order is filled or empty and every cell at or after the cursor is unknown.
C17_PrefixCommitted ==
    (pc = "search" /\ stack # << >> /\ Top.at = "L191")
        => CommittedBefore(CursorIndex(Top))

C17_Witness ==
    /\ pc = "search" /\ stack # << >> /\ Top.at = "L191"
    /\ hints.rows_count = 2 /\ hints.cols_count = 2
    /\ Top.row = 1 /\ Top.col = 1
    /\ board[0][1] = 1 /\ board[1][0] = 0

\* C18: when a call of solve_recursive returns false, its cell and every
\* later cell hold -1, the value the board was initialised with, and the
\* cells before it are as they were at its entry: the frames' cursors are
\* consecutive cells, and a step writes no cell but the cell of the frame
\* that takes it.  So a solve that ends unsolvable leaves the board all -1.
C18_FailureRestores ==
    /\ []((pc = "search" /\ ret = "false")
            => CommittedBefore(IF stack = << >> THEN 0 ELSE CursorIndex(Top) + 1))
    /\ [](pc = "search"
            => \A i \in 1 .. Len(stack) : CursorIndex(stack[i]) = i - 1)
    /\ [][(pc = "search" /\ stack # << >>)
            => \A r \in 0 .. hints.rows_count - 1, c \in 0 .. hints.cols_count - 1 :
                  (r # Top.row \/ c # Top.col) => board'[r][c] = board[r][c]]_vars

C18_Witness ==
    /\ pc = "search" /\ ret = "false" /\ Len(stack) = 1
    /\ hints.rows_count * hints.cols_count >= 3
    /\ board[0][0] = 0

\* C19: in a solve started from the all-unknown board with hints every line
\* of which has room for its runs, whenever the cursor has moved past the
\* last cell the board satisfies is_solved: a board that passed every
\* is_valid_move check never fails the terminal check.
C19_BaseCaseSolved ==
    (input.kind = "json" /\ WellFormed(input)
        /\ pc = "search" /\ stack # << >>
        /\ Top.at = "L191" /\ Top.row = hints.rows_count)
        => is_solved(board, hints.rows_count, hints.cols_count, hints)

\* C20: once is_solved has returned true, no cell is written again: every
\* step taken while the value returned is true leaves the board alone, keeps
\* the value, and returns from the frame on top if there is one.
C20_SolvedUnwinds ==
    [][(pc = "search" /\ ret = "true")
        => /\ board' = board
           /\ ret' = "true"
           /\ stack # << >> => stack' = Pop]_vars

C20_Witness ==
    /\ pc = "search" /\ ret = "true" /\ Len(stack) = 2
    /\ hints.rows_count * hints.cols_count >= 3

\* C21: is_valid_move and is_solved modify neither the board nor the hints:
\* the step that is the call of is_valid_move on the cell just filled, and
\* the step that is the call of is_solved at the past-the-end cursor, leave
\* both as they were; and is_solved called again on the board and hints it
\* left returns the value it returned.
C21_ChecksArePure ==
    [][(pc = "search" /\ stack # << >>)
        => /\ Top.at = "L206" => (board' = board /\ hints' = hints)
           /\ (Top.at = "L191" /\ Top.row = hints.rows_count)
                => /\ board' = board
                   /\ hints' = hints
                   /\ ret' = Bool(is_solved(board', hints'.rows_count,
                                           hints'.cols_count, hints'))]_vars

C21_Witness ==
    /\ pc = "search" /\ stack # << >> /\ ret = "false"
    /\ Top.row = hints.rows_count - 1 /\ Top.col = hints.cols_count - 1
    /\ Top.at = "L207"
    /\ hints.rows_count * hints.cols_count >= 3

\* C22 as stated: the cursor follows row-major order, a call for the
\* successor is made only after a value was committed at the cell (or the
\* cell was filled already), and a frame returns false only after both
\* values at its cell have been exhausted.
C22_CursorOrder_stated ==
    [][AdvancesOnCommit /\ ReturnsFalseOnlyExhausted(FALSE)]_vars

\* C22, amended: the cursor follows row-major order, a call for the
\* successor is made only after a value was committed at the cell (or the
\* cell was filled already), and a frame returns false only after both
\* values at its cell have been exhausted, except a frame whose cell was
\* filled already, which tries no value and returns what the call for the
\* successor returned.
C22_CursorOrder ==
    [][AdvancesOnCommit /\ ReturnsFalseOnlyExhausted(TRUE)]_vars

C22_Witness ==
    /\ pc = "search" /\ stack # << >> /\ ret = "false"
    /\ Top.at = "L201" /\ Top.row = 0 /\ Top.col = 0
    /\ hints.rows_count = 2 /\ hints.cols_count = 2

\* C23: at each cell the solver tries filled first; it writes empty only
\* after the filled attempt was rejected by is_valid_move or the call made
\* under it returned false; and it calls solve_recursive for the next
\* position under a value only when is_valid_move returned true for the
\* board with that value written at the cell.
C23_FilledThenEmpty ==
    [][(pc = "search" /\ stack # << >> /\ AtCell)
        => /\ (Top.at = "L191" /\ board[Top.row][Top.col] # 1)
                => /\ board' = [board EXCEPT ![Top.row][Top.col] = 1]
                   /\ stack' = Append(Pop, [Top EXCEPT !.at = "L206"])
           /\ (board'[Top.row][Top.col] = 0 /\ board[Top.row][Top.col] # 0)
                => Top.at = "L213"
           /\ (Stays /\ stack'[Len(stack)].at = "L213")
                => \/ /\ Top.at = "L206"
                      /\ ~is_valid_move(board, Top.row, Top.col, hints)
                   \/ Top.at = "L207" /\ ret = "false"
           /\ Calls
                => /\ stack'[Len(stack)].at \in {"L201", "L207", "L215"}
                   /\ stack'[Len(stack)].at = "L207"
                        => /\ board'[Top.row][Top.col] = 1
                           /\ is_valid_move(board', Top.row, Top.col, hints)
                   /\ stack'[Len(stack)].at = "L215"
                        => /\ board'[Top.row][Top.col] = 0
                           /\ is_valid_move(board', Top.row, Top.col, hints)]_vars

C23_Witness ==
    /\ pc = "search" /\ Len(stack) >= 3
    /\ stack[1].at = "L215" /\ stack[2].at = "L207" /\ Top.at = "L215"

\* C24: nonogram_hints_create on a 0/1 board stores, for every row and every
\* column, one value per maximal block of cells equal to 1, the length of
\* the block, in scan order, and zeros in the slots that remain.
C24_HintsAreRuns ==
    (input.kind = "board" /\ created.called /\ created.ok)
        => /\ hints.rows_count = input.rows_count
           /\ hints.cols_count = input.cols_count
           /\ \A r \in 0 .. input.rows_count - 1 :
                 HoldsRuns(hints.rows[r], input.cols_count,
                           RunsOf(input.cells[r], input.cols_count))
           /\ \A c \in 0 .. input.cols_count - 1 :
                 HoldsRuns(hints.cols[c], input.rows_count,
                           RunsOf(Column(input.cells, input.rows_count, c),
                                  input.rows_count))

C24_Witness ==
    /\ input.kind = "board" /\ created.called /\ created.ok
    /\ input.rows_count = 1 /\ input.cols_count = 4
    /\ hints.rows[0] = SeqToArray(<<1, 2, 0, 0>>)
    /\ hints.cols[1] = SeqToArray(<<0>>)

\* C25: in the greedy variant update_cols leaves every cell of the board
\* unchanged, so the board solve_nonogram(hints, board) produces is
\* determined by the row hints (and the board it was given) alone, whatever
\* the column hints: every row holds its runs packed to the left.
C25_GreedyIgnoresCols ==
    /\ [][pc = "greedy_update" => board' = board]_vars
    /\ [](GreedyDone =>
            board = [r \in 0 .. input.rows_count - 1 |->
                        PackedRow(input.rows[r + 1], input.start[r], input.cols_count)])

C25_Witness ==
    /\ GreedyDone
    /\ input.rows_count = 2 /\ input.cols_count = 2
    /\ board[0][0] = 1 /\ board[1][0] = 1 /\ board[0][1] = 0
    /\ input.cols[1] = << >>
    /\ ColRuns(board, 2, 2) # input.cols

\* C26: soundness.  For hints every line of which has room for its runs,
\* when the search from the all-unknown board returns true the board holds
\* only filled and empty cells and nonogram_hints_create derives from it
\* the hints the search was given, row by row and column by column.
C26_SolvedMatchesHints ==
    (Returned /\ input.kind = "json" /\ WellFormed(input) /\ ret = "true")
        => /\ FullyAssigned(board)
           /\ LET c == nonogram_hints_create(board, hints.rows_count, hints.cols_count)
              IN /\ c.hints # NULL
                 /\ c.hints.rows = hints.rows
                 /\ c.hints.cols = hints.cols

C26_Witness ==
    /\ Returned /\ input.kind = "json" /\ WellFormed(input) /\ ret = "true"
    /\ input.rows_count = 2 /\ input.cols_count = 2
    /\ board[0][0] = 1 /\ board[1][0] = 0

\* C27: in a solve started from the all-unknown board, every board on which
\* solve_recursive is called after an accepted placement, and every board
\* returned as solved, has no two filled cells next to each other in a row
\* or in a column.
C27_RunsOfOne ==
    (input.kind = "json" /\ pc = "search"
        /\ \/ Len(stack) >= 2 /\ Top.at = "L191"
           \/ stack = << >> /\ ret = "true")
        => NoAdjacentFilled(board, hints.rows_count, hints.cols_count)

C27_Witness ==
    /\ input.kind = "json" /\ pc = "search" /\ Len(stack) >= 2 /\ Top.at = "L191"
    /\ hints.rows_count = 1 /\ hints.cols_count = 3
    /\ Top.col = 2 /\ board[0][0] = 1 /\ board[0][1] = 0

\* C28: at every point at which an allocation of _nonogram_hints_new can
\* fail, the function returns NULL having freed exactly once every block
\* it had allocated, and nothing else; when none fails every row and column
\* hint array is allocated and zero-filled.
C28_NoLeakOnFailure ==
    call.op = "_nonogram_hints_new"
        => /\ \A i \in 1 .. Len(call.allocs) : Occurrences(call.allocs, call.allocs[i]) = 1
           /\ IF call.fail # 0 \/ input.rows_count = 0 \/ input.cols_count = 0
              THEN /\ hints = NULL
                   /\ \A i \in 1 .. Len(call.allocs) :
                         Occurrences(call.frees, call.allocs[i]) = 1
                   /\ \A i \in 1 .. Len(call.frees) :
                         Occurrences(call.allocs, call.frees[i]) = 1
              ELSE /\ hints # NULL
                   /\ call.frees = << >>
                   /\ Len(call.allocs) = 3 + input.rows_count + input.cols_count
                   /\ hints.rows = [r \in 0 .. input.rows_count - 1 |->
                                       [c \in 0 .. input.cols_count - 1 |-> 0]]
                   /\ hints.cols = [c \in 0 .. input.cols_count - 1 |->
                                       [r \in 0 .. input.rows_count - 1 |-> 0]]

C28_Witness ==
    /\ call.op = "_nonogram_hints_new"
    /\ input.rows_count = 2 /\ input.cols_count = 2
    /\ call.fail = 7
    /\ Len(call.frees) = 6

\* C29: the text nonogram_hints_to_string(h) returns is the text of a first
\* call on h, whatever calls on other models or on NULL came before and
\* whatever text, longer or shorter, they left in the static buffer.
C29_TextOfModelOnly ==
    (call.op = "to_string" /\ call.arg = hints)
        => /\ ~call.result.isnull
           /\ call.result.text = nonogram_hints_to_string(<< >>, hints).result.text
           /\ CString(string) = call.result.text

C29_Witness ==
    /\ call.op = "to_string"
    /\ call.arg = hints
    /\ Len(call.before) > Len(call.result.text)
    /\ call.result.text = nonogram_hints_to_string(<< >>, hints).result.text

\* an access inside its array: a row hint array has cols_count slots, a
\* column hint array rows_count, the board rows_count rows of cols_count
InsideArray(a, rows_count, cols_count) ==
    IF a.array = "cols"
    THEN a.line \in 0 .. cols_count - 1 /\ a.index \in 0 .. rows_count - 1
    ELSE a.line \in 0 .. rows_count - 1 /\ a.index \in 0 .. cols_count - 1

\* C30: on every board of the grid with cells -1, 0 or 1, every hint array
\* index read by is_valid_move and is_solved and every index written by
\* _nonogram_hints_fill lies inside its hint array, and every board index
\* lies inside the grid.
C30_IndicesInRange ==
    call.op \in {"is_valid_move", "is_solved", "_nonogram_hints_fill"}
        => \A a \in call.accesses : InsideArray(a, hints.rows_count, hints.cols_count)

C30_Witness ==
    /\ call.op = "_nonogram_hints_fill"
    /\ hints.rows_count = 1 /\ hints.cols_count = 3
    /\ call.board[0] = [c \in 0 .. 2 |-> IF c = 1 THEN -1 ELSE 1]
    /\ Access("rows", 0, 1) \in call.accesses

====
